---- MODULE Spec2Model ----
(***************************************************************************)
(* Model of the voice-assistant screen: the useVoiceAgentConnection hook   *)
(* (token fetch with loading / error / details state) and the              *)
(* VoiceAssistantScreen / VoiceAssistantRoom components (audio session     *)
(* effect, loading-or-room rendering, microphone toggle).                  *)
(***************************************************************************)
EXTENDS Integers, Sequences, FiniteSets, TLC

VARIABLES
    lifecycle,            \* "rendered" (first render done, effects not yet run), "mounted", "unmounted"
    details,              \* useState<ConnectionDetails | undefined>
    isLoading,            \* useState(true)
    error,                \* useState<string | null>(null)
    fetches,              \* one record per call of fetchConnectionDetails
    staleWrites,          \* number of state setters called after the screen was unmounted
    view,                 \* what VoiceAssistantScreen returned at its last render
    audioQueue,           \* AudioSession calls issued and not yet carried out, in call order
    audioActive,          \* the device audio session is started
    startCalls,           \* number of AudioSession.startAudioSession() calls
    connected,            \* LiveKitRoom has connected
    micEnabled,           \* the local participant's microphone-enabled flag
    isMicrophoneEnabled,  \* the value useLocalParticipant() gave the last render of the room
    micCalls              \* one <<flag before, flag after>> pair per activation of the toggle

vars == <<lifecycle, details, isLoading, error, fetches, staleWrites, view,
          audioQueue, audioActive, startCalls, connected, micEnabled, isMicrophoneEnabled,
          micCalls>>

connVars == <<details, isLoading, error>>
micVars == <<connected, micEnabled, isMicrophoneEnabled, micCalls>>
audioVars == <<audioQueue, audioActive, startCalls>>

----
\* Bounds and input sets

MaxTime == 2
MaxPresses == 2
Times == 1..MaxTime

Undefined == "undefined"

Statuses == {199, 200, 204, 299, 300, 404, 500}
NoStatus == 0

Urls == {"wss://x", "wss://y"}
Tokens == {"abc", "wss://x"}
Rooms == {"r1"}

\* A response body as response.json() sees it.
\*   "object"     a JSON object; an absent key reads as undefined
\*   "scalar"     valid JSON that is a number, string or boolean
\*   "null"       the JSON literal null
\*   "invalid"    not valid JSON (includes the empty body)
\*   "unreadable" the body stream fails while it is read
BodyOf(k, u, t, r) == [kind |-> k, server_url |-> u, token |-> t, room_name |-> r]
NoBody == BodyOf("none", Undefined, Undefined, Undefined)
Bodies ==
    { BodyOf("object", u, t, r) : u \in Urls \cup {Undefined},
                                  t \in Tokens \cup {Undefined},
                                  r \in Rooms \cup {Undefined} }
    \cup { BodyOf(k, Undefined, Undefined, Undefined) :
             k \in {"scalar", "null", "invalid", "unreadable"} }

\* A thrown value: isError is `instanceof Error`, message its message
\* (<< >> is the empty string, also used when there is no message at all).
Thrown(e, m) == [isError |-> e, message |-> m]
NoExc == Thrown(FALSE, <<"none">>)
Exceptions ==
    { Thrown(TRUE, <<"Network request failed">>),
      Thrown(TRUE, << >>),
      Thrown(FALSE, << >>),
      Thrown(FALSE, <<"boom">>) }
SyntaxError == Thrown(TRUE, <<"JSON Parse error">>)
TypeError == Thrown(TRUE, <<"Cannot read property of null">>)

----
\* The hook: useVoiceAgentConnection

DetailsUndefined == [defined |-> FALSE, url |-> Undefined, token |-> Undefined, roomName |-> Undefined]
Null == [set |-> FALSE, msg |-> << >>]
ErrorOf(m) == [set |-> TRUE, msg |-> m]

NewFetch(t) ==
    [pc |-> "awaitFetch", userId |-> <<"user-", ToString(t)>>,
     status |-> NoStatus, body |-> NoBody, raised |-> "none", exc |-> NoExc]

\* response.ok
OkLax(status) == status >= 200 /\ status <= 399
Ok(status) == status >= 200 /\ status <= 299

\* new Error(`HTTP error! status: ${response.status}`)
HttpError(status) == Thrown(TRUE, <<"HTTP error! status: ", ToString(status)>>)

\* setDetails({ url: data.server_url, token: data.token, roomName: data.room_name })
MapDetailsSwapped(data) ==
    [defined |-> TRUE, url |-> data.token, token |-> data.server_url, roomName |-> data.room_name]
MapDetails(data) ==
    [defined |-> TRUE, url |-> data.server_url, token |-> data.token, roomName |-> data.room_name]

\* err instanceof Error ? err.message : 'Unknown error'
CatchMessage(err) == IF err.isError THEN err.message ELSE <<"Unknown error">>

\* finally { setIsLoading(false) }
FinallyLoadingKept == TRUE
FinallyLoading == FALSE

\* useEffect(..., []) of the hook: runs after the first render only
FetchEffectEveryRender(first) == TRUE
FetchEffectRuns(first) == first

Stale(n) == IF lifecycle = "unmounted" THEN staleWrites + n ELSE staleWrites

\* catch (err) { setError(...) } finally { setIsLoading(false) }
FailWith(i, s, src, e) ==
    /\ error' = ErrorOf(CatchMessage(e))
    /\ isLoading' = FinallyLoading
    /\ details' = details
    /\ staleWrites' = Stale(2)
    /\ fetches' = [fetches EXCEPT ![i].pc = "done", ![i].status = s,
                                   ![i].raised = src, ![i].exc = e]

\* setDetails(...) then finally { setIsLoading(false) }
SucceedWith(i, data) ==
    /\ details' = MapDetails(data)
    /\ isLoading' = FinallyLoading
    /\ error' = error
    /\ staleWrites' = Stale(2)
    /\ fetches' = [fetches EXCEPT ![i].pc = "done"]

\* The synchronous start of fetchConnectionDetails, up to `await fetch(...)`
FetchEffect(first, t) ==
    IF FetchEffectRuns(first)
    THEN /\ isLoading' = TRUE
         /\ error' = Null
         /\ details' = details
         /\ fetches' = Append(fetches, NewFetch(t))
    ELSE UNCHANGED <<isLoading, error, details, fetches>>

----
\* The screen: VoiceAssistantScreen

LoadingView == [kind |-> "loading", serverUrl |-> Undefined, token |-> Undefined]
NoView == [kind |-> "none", serverUrl |-> Undefined, token |-> Undefined]

\* if (isLoading || !connectionDetails) <loading/> else <LiveKitRoom .../>
RenderScreenLoadingOnly(loading, d) ==
    IF loading THEN LoadingView
    ELSE [kind |-> "room", serverUrl |-> d.url, token |-> d.token]
RenderScreen(loading, d) ==
    IF loading \/ ~d.defined THEN LoadingView
    ELSE [kind |-> "room", serverUrl |-> d.url, token |-> d.token]

\* useEffect(..., []) of the screen
AudioEffectRuns(first) == first

\* return () => { AudioSession.stopAudioSession(); }
AudioCleanupMissing(q) == q
AudioCleanup(q) == Append(q, "stop")

AudioEffect(first) ==
    IF AudioEffectRuns(first)
    THEN /\ audioQueue' = Append(IF first THEN audioQueue ELSE AudioCleanup(audioQueue), "start")
         /\ startCalls' = startCalls + 1
         /\ audioActive' = audioActive
    ELSE UNCHANGED audioVars

----
Init ==
    /\ lifecycle = "rendered"
    /\ details = DetailsUndefined
    /\ isLoading = TRUE
    /\ error = Null
    /\ fetches = << >>
    /\ staleWrites = 0
    /\ view = RenderScreen(TRUE, DetailsUndefined)
    /\ audioQueue = << >>
    /\ audioActive = FALSE
    /\ startCalls = 0
    /\ connected = FALSE
    /\ micEnabled = FALSE
    /\ isMicrophoneEnabled = FALSE
    /\ micCalls = << >>

\* The effects of the first render: the hook's effect, then the screen's.
MountEffects ==
    /\ lifecycle = "rendered"
    /\ lifecycle' = "mounted"
    /\ \E t \in Times : FetchEffect(TRUE, t)
    /\ AudioEffect(TRUE)
    /\ UNCHANGED <<staleWrites, view, micVars>>

\* `await fetch(...)` resolves with a response
FetchResolves ==
    \E i \in DOMAIN fetches, s \in Statuses, b \in Bodies :
        /\ fetches[i].pc = "awaitFetch"
        /\ IF ~Ok(s)
           THEN FailWith(i, s, "http", HttpError(s))
           ELSE /\ fetches' = [fetches EXCEPT ![i].pc = "awaitJson", ![i].status = s, ![i].body = b]
                /\ UNCHANGED <<connVars, staleWrites>>
        /\ UNCHANGED <<lifecycle, view, audioVars, micVars>>

\* `await fetch(...)` rejects: the request could not be sent or completed
FetchRejects ==
    \E i \in DOMAIN fetches, e \in Exceptions :
        /\ fetches[i].pc = "awaitFetch"
        /\ FailWith(i, NoStatus, "fetch", e)
        /\ UNCHANGED <<lifecycle, view, audioVars, micVars>>

\* `await response.json()` settles, and the rest of fetchConnectionDetails runs
JsonSettles ==
    \E i \in DOMAIN fetches :
        /\ fetches[i].pc = "awaitJson"
        /\ LET b == fetches[i].body
               s == fetches[i].status
           IN CASE b.kind = "invalid"    -> FailWith(i, s, "json", SyntaxError)
                [] b.kind = "unreadable" -> \E e \in Exceptions : FailWith(i, s, "json", e)
                [] b.kind = "null"       -> FailWith(i, s, "map", TypeError)
                [] OTHER                 -> SucceedWith(i, b)
        /\ UNCHANGED <<lifecycle, view, audioVars, micVars>>

\* A render of the mounted screen (a state update or a parent re-render),
\* followed by the effects whose dependencies ask for it.
Render ==
    /\ lifecycle = "mounted"
    /\ view' = RenderScreen(isLoading, details)
    /\ isMicrophoneEnabled' = IF view'.kind = "room" THEN micEnabled ELSE isMicrophoneEnabled
    /\ \E t \in Times : FetchEffect(FALSE, t)
    /\ AudioEffect(FALSE)
    /\ UNCHANGED <<lifecycle, staleWrites, connected, micEnabled, micCalls>>

\* The screen is torn down: the audio effect's cleanup runs; the fetch is not cancelled.
Unmount ==
    /\ lifecycle = "mounted"
    /\ lifecycle' = "unmounted"
    /\ view' = NoView
    /\ audioQueue' = AudioCleanup(audioQueue)
    /\ connected' = FALSE
    /\ UNCHANGED <<connVars, fetches, staleWrites, audioActive, startCalls,
                   micEnabled, isMicrophoneEnabled, micCalls>>

\* The native module carries out the oldest AudioSession call.
AudioSessionStep ==
    /\ audioQueue # << >>
    /\ audioActive' = (Head(audioQueue) = "start")
    /\ audioQueue' = Tail(audioQueue)
    /\ UNCHANGED <<lifecycle, connVars, fetches, staleWrites, view, startCalls, micVars>>

\* <LiveKitRoom connect={true} audio={true}>: the room connects and enables the microphone.
RoomConnect ==
    /\ view.kind = "room"
    /\ ~connected
    /\ view.serverUrl # Undefined /\ view.token # Undefined
    /\ connected' = TRUE
    /\ micEnabled' = TRUE
    /\ UNCHANGED <<lifecycle, connVars, fetches, staleWrites, view, audioVars,
                   isMicrophoneEnabled, micCalls>>

\* onPress={toggleMicrophone}: localParticipant.setMicrophoneEnabled(!isMicrophoneEnabled)
ToggleMicrophone ==
    /\ view.kind = "room"
    /\ Len(micCalls) < MaxPresses
    /\ micEnabled' = ~isMicrophoneEnabled
    /\ micCalls' = Append(micCalls, <<micEnabled, micEnabled'>>)
    /\ UNCHANGED <<lifecycle, connVars, fetches, staleWrites, view, audioVars,
                   connected, isMicrophoneEnabled>>

Next ==
    \/ MountEffects
    \/ FetchResolves
    \/ FetchRejects
    \/ JsonSettles
    \/ Render
    \/ Unmount
    \/ AudioSessionStep
    \/ RoomConnect
    \/ ToggleMicrophone

Spec == Init /\ [][Next]_vars

----
\* Properties

Settled == fetches # << >> /\ \A i \in DOMAIN fetches : fetches[i].pc = "done"
Contains(msg, str) == \E k \in DOMAIN msg : msg[k] = str
ExpectedShape(b) == b.kind = "object" /\ b.server_url # Undefined /\ b.token # Undefined
GotBody(f) == f.pc = "done" /\ f.status >= 200 /\ f.status <= 299 /\ f.raised \in {"none", "json", "map"}

\* C1: a 2xx response whose JSON body carries server_url, token and optionally
\* room_name leaves isLoading = false, error = null and details equal to
\* {url: server_url, token: token, roomName: room_name}.
C1_FieldMapping ==
    \A i \in DOMAIN fetches :
        (GotBody(fetches[i]) /\ ExpectedShape(fetches[i].body)) =>
            /\ isLoading = FALSE
            /\ error = Null
            /\ details = [defined |-> TRUE,
                          url |-> fetches[i].body.server_url,
                          token |-> fetches[i].body.token,
                          roomName |-> fetches[i].body.room_name]

C1_Witness ==
    \E i \in DOMAIN fetches :
        /\ GotBody(fetches[i]) /\ ExpectedShape(fetches[i].body)
        /\ fetches[i].body.room_name = Undefined
        /\ fetches[i].body.server_url # fetches[i].body.token
        /\ details.defined

\* C2: a response whose status is outside 200..299 leaves isLoading = false,
\* details undefined and an error message that contains the status code.
C2_HttpErrorFails ==
    \A i \in DOMAIN fetches :
        (fetches[i].pc = "done" /\ fetches[i].status # NoStatus
            /\ (fetches[i].status < 200 \/ fetches[i].status > 299)) =>
            /\ isLoading = FALSE
            /\ details = DetailsUndefined
            /\ error.set
            /\ Contains(error.msg, ToString(fetches[i].status))

C2_Witness ==
    \E i \in DOMAIN fetches :
        /\ fetches[i].pc = "done" /\ fetches[i].status = 300
        /\ error.set /\ Contains(error.msg, "300")

\* C3: an exception raised by fetch or by parsing the body leaves a non-empty
\* error message: the exception's message, or the generic fallback whenever
\* the thrown value carries no message (an Error with an empty message included).
C3_ExceptionMessageNonEmpty ==
    \A i \in DOMAIN fetches :
        (fetches[i].pc = "done" /\ fetches[i].raised \in {"fetch", "json"}) =>
            /\ isLoading = FALSE
            /\ error.set
            /\ error.msg # << >>
            /\ error.msg = IF fetches[i].exc.message # << >>
                            THEN fetches[i].exc.message
                            ELSE <<"Unknown error">>

\* C4: a 2xx response whose body is not of the expected JSON shape ends in
\* Failed with details undefined, never in Ready with an undefined url or token.
C4_MalformedBodyFails ==
    /\ \A i \in DOMAIN fetches :
           (GotBody(fetches[i]) /\ ~ExpectedShape(fetches[i].body)) =>
               (error.set /\ details = DetailsUndefined)
    /\ details.defined => (details.url # Undefined /\ details.token # Undefined)

\* C5: exactly one POST is issued per mount, whatever re-renders and outcomes
\* follow; at most one request is outstanding and none is issued after a failure.
C5_SingleShot ==
    /\ Len(fetches) = IF lifecycle = "rendered" THEN 0 ELSE 1
    /\ Cardinality({i \in DOMAIN fetches : fetches[i].pc # "done"}) <= 1
    /\ error.set => Settled

C5_Witness ==
    /\ lifecycle = "mounted"
    /\ view.kind = "room"
    /\ Len(fetches) = 1
    /\ Settled

\* C6: the room is rendered, with the fetched url and token, only when
\* isLoading = false and details are defined; in every other state of the
\* mounted screen the loading placeholder is rendered, also after a failure.
C6_RoomOnlyWhenReady ==
    /\ view.kind = "room" =>
           /\ isLoading = FALSE
           /\ details.defined
           /\ view.serverUrl = details.url
           /\ view.token = details.token
    /\ (lifecycle # "unmounted" /\ (isLoading \/ ~details.defined)) => view = LoadingView
    /\ error.set => (view.kind # "room" /\ ~connected)

C6_Witness ==
    /\ view.kind = "room"
    /\ connected
    /\ ~isLoading /\ details.defined

C8_LateSettleNoWrite == staleWrites = 0

\* C9: every activation of the microphone toggle flips the local
\* participant's microphone-enabled flag, so consecutive activations leave
\* alternating values, re-rendered in between or not.
C9_ToggleFlips ==
    \A k \in DOMAIN micCalls : k > 1 => micCalls[k][2] = ~micCalls[k - 1][2]

\* C10: details and error are never both set; once the fetch has settled
\* isLoading is false and exactly one of details and error is set; and from
\* then on details, error and isLoading never change.
C10_StateWellFormed ==
    /\ ~(details.defined /\ error.set)
    /\ Settled => (isLoading = FALSE /\ (details.defined # error.set))
    /\ ~Settled => ~details.defined
C10_Absorbing == [](C10_StateWellFormed) /\ [][Settled => UNCHANGED connVars]_vars

C10_Witness ==
    /\ Settled
    /\ lifecycle = "mounted"
    /\ error.set
    /\ view = LoadingView

====
